---- MODULE Spec2Model ----
(***************************************************************************)
(* Verification model of the bastion runtime core:                         *)
(*   - lightproc task state atom driven by ProcHandle (cancel, drop, poll) *)
(*     interleaved with the executor's run and with task wakers;           *)
(*   - the supervision Broadcast bus;                                      *)
(*   - the load sampler thread and the statistics lock.                    *)
(* Every atomic access to the shared task state word is one action; the   *)
(* local variable `state` of each function is a per-thread variable.       *)
(***************************************************************************)
EXTENDS Integers, Naturals, Sequences, FiniteSets, TLC

(***************************************************************************)
(* Bounds of the model.                                                    *)
(***************************************************************************)
\* polls of the task's computation by the executor (the last one may be Ready)
MaxPolls == 2
\* clones of the task's own waker that are alive at the same time
MaxWakers == 1
\* distinct wakers (contexts) the observer may poll the handle with
NumWakers == 2
\* Broadcast buses that are ever created, the root included
MaxBuses == 4
\* distinct actor ids
NumIds == 2
\* calls made on the buses of the tree that changed a bus or a channel
MaxOps == 4
\* entries of the per-core queue depth mapping, and the largest core count
MaxCores == 2
\* largest queue depth a worker publishes
MaxDepth == 2

(***************************************************************************)
(* state.rs: layout of the state word. Flags in the low bits, the          *)
(* reference count above them.                                              *)
(***************************************************************************)
SCHEDULED == 1
RUNNING == 2
COMPLETED == 4
CLOSED == 8
HANDLE == 16
AWAITER == 32
LOCKED == 64
REFERENCE == 128

\* state & f != 0, for a single flag bit f
Has(s, f) == (s \div f) % 2 = 1
\* state | f
Or(s, f) == IF Has(s, f) THEN s ELSE s + f
\* state & !f
Clear(s, f) == IF Has(s, f) THEN s - f ELSE s
\* state & !(REFERENCE - 1), as a count of references
RefCount(s) == s \div REFERENCE

Wakers == 1 .. NumWakers
NoWaker == 0

VARIABLES
    \* ---- the task allocation (header + body) ----
    state,        \* ProcData.state, the atomic state word
    awaiter,      \* ProcData.awaiter slot: NoWaker or the stored waker
    slot,         \* the body's union: "future", "output", "taken", "empty"
    destroyed,    \* number of calls of vtable.destroy
    \* ---- the world around the task ----
    queued,       \* tasks handed to the executor by schedule and not yet taken
    wakes,        \* observer wakers that have been woken and not polled since
    polls,        \* number of times the computation was polled
    reads,        \* number of times the output was read out of the slot
    outputDrops,  \* number of times a read-out output was dropped
    someCount,    \* number of handle polls that returned Some(output)
    \* ---- the thread that owns the ProcHandle ----
    hpc,          \* position inside cancel / drop / poll, "idle" or "gone"
    hstate,       \* the local `state`
    hentry,       \* the state word the running (or last) call saw at entry
    hwaker,       \* cx.waker() of the running (or last) poll
    houtput,      \* drop's local `output` is Some
    hret,         \* what the last finished call was / returned
    closedBy,     \* who raised CLOSED first
    \* ---- the executor thread inside run ----
    epc,
    estate,
    eoutput,
    \* ---- holders of clones of the task's waker ----
    wakersOut,
    wpc,
    \* ---- the supervision tree of Broadcast buses ----
    bus,          \* bus instance -> its fields and its position inside dead/faulted
    inbox,        \* bus instance -> the messages its channel has accepted, in order
    ops,          \* number of calls so far that changed a bus or a channel
    called,       \* the call on a bus that was made last, with its arguments
    \* ---- the load sampler and the shared statistics ----
    lock,         \* the ShardedLock of the statistics: "free", "read" or "write"
    smp_queues,   \* Stats.smp_queues: core -> queue depth
    mean_level,   \* Stats.mean_level
    core_count,   \* placement::get_core_ids().unwrap().len()
    lbpc,         \* position of the sampler thread inside its loop
    m,            \* the sampler's local m
    lbread,       \* the sampler acquired the read lock in this iteration
    lbstored      \* how the value the sampler stored last came about

procVars == <<state, awaiter, slot, destroyed, queued, wakes, polls, reads,
              outputDrops, someCount, hpc, hstate, hentry, hwaker, houtput,
              hret, closedBy, epc, estate, eoutput, wakersOut, wpc>>

busVars == <<bus, inbox, ops, called>>

lbVars == <<lock, smp_queues, mean_level, core_count, lbpc, m, lbread, lbstored>>

vars == <<procVars, busVars, lbVars>>

\* what the sampler and the workers never touch
notLb == <<procVars, busVars>>

\* what the task's threads never touch
notProc == <<busVars, lbVars>>

taskVars == <<state, awaiter, slot, destroyed, queued, wakes>>
countVars == <<polls, reads, outputDrops, someCount>>
handleVars == <<hpc, hstate, hentry, hwaker, houtput, hret>>
execVars == <<epc, estate, eoutput>>
wakerVars == <<wakersOut, wpc>>


(***************************************************************************)
(* proc_data.rs: the awaiter slot. swap_awaiter takes the LOCKED bit,      *)
(* replaces the slot and sets or clears AWAITER; it is one atomic step of  *)
(* the model. notify takes the stored waker out and wakes it;             *)
(* notify_unless(current) wakes it only if it is not `current`.            *)
(***************************************************************************)
swap_awaiter(new) ==
    /\ awaiter' = new
    /\ state' = IF new = NoWaker THEN Clear(state, AWAITER) ELSE Or(state, AWAITER)

notify ==
    /\ swap_awaiter(NoWaker)
    /\ wakes' = IF awaiter # NoWaker THEN wakes \cup {awaiter} ELSE wakes

notify_unless(current) ==
    /\ swap_awaiter(NoWaker)
    /\ wakes' = IF awaiter # NoWaker /\ awaiter # current
                THEN wakes \cup {awaiter} ELSE wakes

(***************************************************************************)
(* The body's slot behind the vtable. get_output(ptr).read() moves the     *)
(* output out; drop_future drops the computation in place; destroy drops   *)
(* what is still in the slot and frees the allocation. Reading an output   *)
(* that is not there, or dropping a computation that is not there, leaves  *)
(* the slot "corrupt".                                                      *)
(***************************************************************************)
ReadOutput(s) == IF s = "output" THEN "taken" ELSE "corrupt"

DropFuture(s) == IF s = "future" THEN "empty" ELSE "corrupt"

DestroySlot(s) == IF s = "future" THEN "empty" ELSE IF s = "output" THEN "taken" ELSE s

\* outputs dropped by destroy itself
DestroyDrops(s) == IF s = "output" THEN 1 ELSE 0

(***************************************************************************)
(* ProcHandle::cancel                                                       *)
(***************************************************************************)
\* a cancel that only looks at COMPLETED
CancelBlockedOnlyCompleted(s) == Has(s, COMPLETED)

\* a cancel that only looks at CLOSED
CancelBlockedOnlyClosed(s) == Has(s, CLOSED)

\* line 48: state & (COMPLETED | CLOSED) != 0
CancelBlocked(s) == Has(s, COMPLETED) \/ Has(s, CLOSED)

\* a cancel that schedules a running task as well
CancelMustScheduleRunning(s) == ~Has(s, SCHEDULED)

\* lines 53 and 69: state & (SCHEDULED | RUNNING) == 0
CancelMustSchedule(s) == ~Has(s, SCHEDULED) /\ ~Has(s, RUNNING)

\* a cancel that, for a scheduled or running task, ORs in SCHEDULED instead
\* of CLOSED
CancelNewWrongFlag(s) ==
    IF CancelMustSchedule(s)
    THEN Or(Or(s, SCHEDULED), CLOSED) + REFERENCE
    ELSE Or(s, SCHEDULED)

\* a cancel that ORs in COMPLETED instead of CLOSED
CancelNewCompletes(s) ==
    IF CancelMustSchedule(s)
    THEN Or(Or(s, SCHEDULED), CLOSED) + REFERENCE
    ELSE Or(s, COMPLETED)

\* lines 53-57: the new state word of the compare-exchange
CancelNew(s) ==
    IF CancelMustSchedule(s)
    THEN Or(Or(s, SCHEDULED), CLOSED) + REFERENCE
    ELSE Or(s, CLOSED)

\* line 74: state & AWAITER != 0
CancelNotifies(s) == Has(s, AWAITER)

\* the call returns; its local `state` goes out of scope
CancelReturn == hpc' = "idle" /\ hret' = "cancel" /\ hstate' = 0

\* line 44: the load at entry
Cancel_Load ==
    /\ hpc = "idle"
    /\ hstate' = state
    /\ hentry' = state
    /\ hpc' = "cancel_loop"
    /\ UNCHANGED <<taskVars, countVars, hwaker, houtput, hret, closedBy,
                   execVars, wakerVars, notProc>>

\* lines 48-50: completed or closed, break
Cancel_Break ==
    /\ hpc = "cancel_loop"
    /\ CancelBlocked(hstate)
    /\ CancelReturn
    /\ UNCHANGED <<taskVars, countVars, hentry, hwaker, houtput,
                   closedBy, execVars, wakerVars, notProc>>

\* lines 60-66: the compare-exchange succeeds
Cancel_CasOk ==
    /\ hpc = "cancel_loop"
    /\ ~CancelBlocked(hstate)
    /\ state = hstate
    /\ state' = CancelNew(hstate)
    /\ closedBy' = IF polls = 0 /\ ~Has(hstate, RUNNING)
                   THEN "cancel_unrun" ELSE "cancel"
    /\ IF CancelMustSchedule(hstate)
       THEN hpc' = "cancel_schedule" /\ UNCHANGED <<hret, hstate>>
       ELSE IF CancelNotifies(hstate)
            THEN hpc' = "cancel_notify" /\ UNCHANGED <<hret, hstate>>
            ELSE CancelReturn
    /\ UNCHANGED <<awaiter, slot, destroyed, queued, wakes, countVars,
                   hentry, hwaker, houtput, execVars, wakerVars, notProc>>

\* line 80: the compare-exchange fails, Err(s) => state = s. A spurious
\* failure of compare_exchange_weak re-enters the loop with the same value
\* and is not a step of the model.
Cancel_CasErr ==
    /\ hpc = "cancel_loop"
    /\ ~CancelBlocked(hstate)
    /\ state # hstate
    /\ hstate' = state
    /\ UNCHANGED <<taskVars, countVars, hpc, hentry, hwaker, houtput, hret,
                   closedBy, execVars, wakerVars, notProc>>

\* lines 69-71: (vtable.schedule)(ptr)
Cancel_Schedule ==
    /\ hpc = "cancel_schedule"
    /\ queued' = queued + 1
    /\ IF CancelNotifies(hstate)
       THEN hpc' = "cancel_notify" /\ UNCHANGED <<hret, hstate>>
       ELSE CancelReturn
    /\ UNCHANGED <<state, awaiter, slot, destroyed, wakes, countVars,
                   hentry, hwaker, houtput, closedBy, execVars, wakerVars, notProc>>

\* lines 74-76: (*header).notify()
Cancel_Notify ==
    /\ hpc = "cancel_notify"
    /\ notify
    /\ CancelReturn
    /\ UNCHANGED <<slot, destroyed, queued, countVars, hentry, hwaker,
                   houtput, closedBy, execVars, wakerVars, notProc>>

cancel ==
    \/ Cancel_Load
    \/ Cancel_Break
    \/ Cancel_CasOk
    \/ Cancel_CasErr
    \/ Cancel_Schedule
    \/ Cancel_Notify


(***************************************************************************)
(* impl Drop for ProcHandle                                                 *)
(***************************************************************************)
\* line 111: the value the fast path expects
DropFastOld == SCHEDULED + HANDLE + REFERENCE

\* a fast path that gives up a reference with the handle
DropFastNewDropsReference == SCHEDULED

\* line 112: the value the fast path stores
DropFastNew == SCHEDULED + REFERENCE

\* a drop that never takes the output
DropTakesOutputNever(s) == FALSE

\* line 119: state & COMPLETED != 0 && state & CLOSED == 0
DropTakesOutput(s) == Has(s, COMPLETED) /\ ~Has(s, CLOSED)

\* a drop that takes one remaining reference for none
DropLastOffByOne(s) == RefCount(s) <= 1

\* line 157: state & !(REFERENCE - 1) == 0
DropLast(s) == RefCount(s) = 0

\* a drop that only ever unsets HANDLE
DropNewOnlyUnsets(s) == Clear(s, HANDLE)

\* lines 141-145: the new state word of the slow path
DropNew(s) ==
    IF RefCount(s) = 0 /\ ~Has(s, CLOSED)
    THEN SCHEDULED + CLOSED + REFERENCE
    ELSE Clear(s, HANDLE)

\* lines 110-115: the optimistic compare-exchange succeeds
Drop_FastOk ==
    /\ hpc = "idle"
    /\ state = DropFastOld
    /\ state' = DropFastNew
    /\ hentry' = state
    /\ hstate' = state
    /\ hpc' = "gone"
    /\ hret' = "drop"
    /\ UNCHANGED <<awaiter, slot, destroyed, queued, wakes, countVars, hwaker,
                   houtput, closedBy, execVars, wakerVars, notProc>>

\* line 110: it fails, Err(mut state); compare_exchange_weak may also fail
\* when the state is the expected one
Drop_FastErr ==
    /\ hpc = "idle"
    /\ hentry' = state
    /\ hstate' = state
    /\ hpc' = "drop_loop"
    /\ UNCHANGED <<taskVars, countVars, hwaker, houtput, hret, closedBy,
                   execVars, wakerVars, notProc>>

\* lines 119-127, 133: CLOSED is raised to grab the output
Drop_TakeCasOk ==
    /\ hpc = "drop_loop"
    /\ DropTakesOutput(hstate)
    /\ state = hstate
    /\ state' = Or(hstate, CLOSED)
    /\ hstate' = Or(hstate, CLOSED)
    /\ closedBy' = "drop"
    /\ hpc' = "drop_read"
    /\ UNCHANGED <<awaiter, slot, destroyed, queued, wakes, countVars, hentry,
                   hwaker, houtput, hret, execVars, wakerVars, notProc>>

\* line 135
Drop_TakeCasErr ==
    /\ hpc = "drop_loop"
    /\ DropTakesOutput(hstate)
    /\ state # hstate
    /\ hstate' = state
    /\ UNCHANGED <<taskVars, countVars, hpc, hentry, hwaker, houtput, hret,
                   closedBy, execVars, wakerVars, notProc>>

\* lines 129-130: output = Some(get_output(ptr).read())
Drop_Read ==
    /\ hpc = "drop_read"
    /\ slot' = ReadOutput(slot)
    /\ reads' = reads + 1
    /\ houtput' = TRUE
    /\ hpc' = "drop_loop"
    /\ UNCHANGED <<state, awaiter, destroyed, queued, wakes, polls, outputDrops,
                   someCount, hstate, hentry, hwaker, hret, closedBy, execVars,
                   wakerVars, notProc>>

\* lines 141-165: HANDLE is unset
Drop_CasOk ==
    /\ hpc = "drop_loop"
    /\ ~DropTakesOutput(hstate)
    /\ state = hstate
    /\ state' = DropNew(hstate)
    /\ closedBy' = IF ~Has(hstate, CLOSED) /\ Has(DropNew(hstate), CLOSED)
                   THEN "drop" ELSE closedBy
    /\ hpc' = IF DropLast(hstate)
              THEN (IF ~Has(hstate, CLOSED) THEN "drop_schedule" ELSE "drop_destroy")
              ELSE "drop_output"
    /\ UNCHANGED <<awaiter, slot, destroyed, queued, wakes, countVars, hstate,
                   hentry, hwaker, houtput, hret, execVars, wakerVars, notProc>>

\* line 167
Drop_CasErr ==
    /\ hpc = "drop_loop"
    /\ ~DropTakesOutput(hstate)
    /\ state # hstate
    /\ hstate' = state
    /\ UNCHANGED <<taskVars, countVars, hpc, hentry, hwaker, houtput, hret,
                   closedBy, execVars, wakerVars, notProc>>

\* line 159: (vtable.schedule)(ptr)
Drop_Schedule ==
    /\ hpc = "drop_schedule"
    /\ queued' = queued + 1
    /\ hpc' = "drop_output"
    /\ UNCHANGED <<state, awaiter, slot, destroyed, wakes, countVars, hstate,
                   hentry, hwaker, houtput, hret, closedBy, execVars, wakerVars,
                   notProc>>

\* line 161: (vtable.destroy)(ptr)
Drop_Destroy ==
    /\ hpc = "drop_destroy"
    /\ destroyed' = destroyed + 1
    /\ slot' = DestroySlot(slot)
    /\ outputDrops' = outputDrops + DestroyDrops(slot)
    /\ hpc' = "drop_output"
    /\ UNCHANGED <<state, awaiter, queued, wakes, polls, reads, someCount,
                   hstate, hentry, hwaker, houtput, hret, closedBy, execVars,
                   wakerVars, notProc>>

\* line 175: drop(output)
Drop_Output ==
    /\ hpc = "drop_output"
    /\ outputDrops' = IF houtput THEN outputDrops + 1 ELSE outputDrops
    /\ hpc' = "gone"
    /\ hret' = "drop"
    /\ UNCHANGED <<taskVars, polls, reads, someCount, hstate, hentry, hwaker,
                   houtput, closedBy, execVars, wakerVars, notProc>>

drop ==
    \/ Drop_FastOk
    \/ Drop_FastErr
    \/ Drop_TakeCasOk
    \/ Drop_TakeCasErr
    \/ Drop_Read
    \/ Drop_CasOk
    \/ Drop_CasErr
    \/ Drop_Schedule
    \/ Drop_Destroy
    \/ Drop_Output

(***************************************************************************)
(* impl Future for ProcHandle: poll                                         *)
(***************************************************************************)
\* a poll that takes a task for closed only once it is completed too
PollClosedOnlyCompleted(s) == Has(s, CLOSED) /\ Has(s, COMPLETED)

\* lines 191 and 211: state & CLOSED != 0
PollClosed(s) == Has(s, CLOSED)

\* lines 199 and 219: state & COMPLETED == 0
PollNotCompleted(s) == ~Has(s, COMPLETED)

\* a poll that grabs the output without raising CLOSED
PollNewKeepsOpen(s) == s

\* line 227: state | CLOSED
PollNew(s) == Or(s, CLOSED)

\* line 234: state & AWAITER != 0
PollNotifies(s) == Has(s, AWAITER)

\* the loop is at the compare-exchange of line 225
PollAtCas ==
    \/ hpc = "poll_cas"
    \/ hpc = "poll_loop" /\ ~PollClosed(hstate) /\ ~PollNotCompleted(hstate)

\* line 187: the load at entry, with the caller's waker w
Poll_Load(w) ==
    /\ hpc = "idle"
    /\ hstate' = state
    /\ hentry' = state
    /\ hwaker' = w
    /\ wakes' = wakes \ {w}
    /\ hpc' = "poll_loop"
    /\ UNCHANGED <<state, awaiter, slot, destroyed, queued, countVars, houtput,
                   hret, closedBy, execVars, wakerVars, notProc>>

\* lines 191-196 and 211-216: closed, notify_unless and return Ready(None)
Poll_Closed ==
    /\ hpc = "poll_loop"
    /\ PollClosed(hstate)
    /\ notify_unless(hwaker)
    /\ hpc' = "idle"
    /\ hret' = "None"
    /\ hstate' = 0
    /\ UNCHANGED <<slot, destroyed, queued, countVars, hentry, hwaker,
                   houtput, closedBy, execVars, wakerVars, notProc>>

\* lines 199-204: swap_awaiter(Some(cx.waker().clone()))
Poll_Register ==
    /\ hpc = "poll_loop"
    /\ ~PollClosed(hstate)
    /\ PollNotCompleted(hstate)
    /\ swap_awaiter(hwaker)
    /\ hpc' = "poll_reload"
    /\ UNCHANGED <<slot, destroyed, queued, wakes, countVars, hstate, hentry,
                   hwaker, houtput, hret, closedBy, execVars, wakerVars, notProc>>

\* a poll that returns Pending right after installing its waker, without
\* looking at the state again
Poll_ReloadBlind ==
    /\ hpc = "poll_reload"
    /\ hpc' = "idle" /\ hret' = "Pending" /\ hstate' = 0
    /\ UNCHANGED <<taskVars, countVars, hentry, hwaker, houtput, closedBy,
                   execVars, wakerVars, notProc>>

\* lines 208-221: the reload and its checks. A closed state goes on exactly
\* as at lines 191-196; a state still not completed returns Pending.
Poll_Reload ==
    /\ hpc = "poll_reload"
    /\ IF PollClosed(state)
       THEN hpc' = "poll_loop" /\ hret' = hret /\ hstate' = state
       ELSE IF PollNotCompleted(state)
            THEN hpc' = "idle" /\ hret' = "Pending" /\ hstate' = 0
            ELSE hpc' = "poll_cas" /\ hret' = hret /\ hstate' = state
    /\ UNCHANGED <<taskVars, countVars, hentry, hwaker, houtput, closedBy,
                   execVars, wakerVars, notProc>>

\* lines 225-231: CLOSED is raised to grab the output
Poll_CasOk ==
    /\ PollAtCas
    /\ state = hstate
    /\ state' = PollNew(hstate)
    /\ closedBy' = "poll"
    /\ hpc' = IF PollNotifies(hstate) THEN "poll_notify" ELSE "poll_take"
    /\ UNCHANGED <<awaiter, slot, destroyed, queued, wakes, countVars, hstate,
                   hentry, hwaker, houtput, hret, execVars, wakerVars, notProc>>

\* line 242: Err(s) => state = s, and the loop starts over
Poll_CasErr ==
    /\ PollAtCas
    /\ state # hstate
    /\ hstate' = state
    /\ hpc' = "poll_loop"
    /\ UNCHANGED <<taskVars, countVars, hentry, hwaker, houtput, hret,
                   closedBy, execVars, wakerVars, notProc>>

\* lines 234-236: notify_unless(cx.waker())
Poll_Notify ==
    /\ hpc = "poll_notify"
    /\ notify_unless(hwaker)
    /\ hpc' = "poll_take"
    /\ UNCHANGED <<slot, destroyed, queued, countVars, hstate, hentry, hwaker,
                   houtput, hret, closedBy, execVars, wakerVars, notProc>>

\* lines 239-240: return Ready(Some(output.read()))
Poll_Take ==
    /\ hpc = "poll_take"
    /\ slot' = ReadOutput(slot)
    /\ reads' = reads + 1
    /\ someCount' = someCount + 1
    /\ hpc' = "idle"
    /\ hret' = "Some"
    /\ hstate' = 0
    /\ UNCHANGED <<state, awaiter, destroyed, queued, wakes, polls, outputDrops,
                   hentry, hwaker, houtput, closedBy, execVars,
                   wakerVars, notProc>>

poll ==
    \/ \E w \in Wakers : Poll_Load(w)
    \/ Poll_Closed
    \/ Poll_Register
    \/ Poll_Reload
    \/ Poll_CasOk
    \/ Poll_CasErr
    \/ Poll_Notify
    \/ Poll_Take


(***************************************************************************)
(* The executor's run(ptr) entry of the task body: takes the task from     *)
(* SCHEDULED to RUNNING, polls the computation and performs the transition *)
(* to pending or completed.                                                 *)
(***************************************************************************)
\* drops a task reference; the last one, with the handle gone, destroys
Decrement(s) == s - REFERENCE

DecrementDestroys(s) == RefCount(Decrement(s)) = 0 /\ ~Has(Decrement(s), HANDLE)

\* the executor picks the task up and loads its state
Run_Take ==
    /\ epc = "idle"
    /\ queued > 0
    /\ queued' = queued - 1
    /\ estate' = state
    /\ epc' = "run_loop"
    /\ UNCHANGED <<state, awaiter, slot, destroyed, wakes, countVars,
                   handleVars, closedBy, eoutput, wakerVars, notProc>>

\* the task was closed: the computation is dropped instead of polled
Run_Closed ==
    /\ epc = "run_loop"
    /\ Has(estate, CLOSED)
    /\ slot' = DropFuture(slot)
    /\ epc' = IF Has(estate, AWAITER) THEN "run_notify" ELSE "run_decrement"
    /\ UNCHANGED <<state, awaiter, destroyed, queued, wakes, countVars,
                   handleVars, closedBy, estate, eoutput, wakerVars, notProc>>

\* atomically clears SCHEDULED, sets RUNNING
RunNew(s) == Or(Clear(s, SCHEDULED), RUNNING)

Run_CasOk ==
    /\ epc = "run_loop"
    /\ ~Has(estate, CLOSED)
    /\ state = estate
    /\ state' = RunNew(estate)
    /\ estate' = RunNew(estate)
    /\ epc' = "polling"
    /\ UNCHANGED <<awaiter, slot, destroyed, queued, wakes, countVars,
                   handleVars, closedBy, eoutput, wakerVars, notProc>>

Run_CasErr ==
    /\ epc = "run_loop"
    /\ ~Has(estate, CLOSED)
    /\ state # estate
    /\ estate' = state
    /\ UNCHANGED <<taskVars, countVars, handleVars, closedBy, epc, eoutput,
                   wakerVars, notProc>>

\* the computation clones the task's waker while it is polled
Run_CloneWaker ==
    /\ epc = "polling"
    /\ wakersOut < MaxWakers
    /\ state' = state + REFERENCE
    /\ wakersOut' = wakersOut + 1
    /\ UNCHANGED <<awaiter, slot, destroyed, queued, wakes, countVars,
                   handleVars, closedBy, execVars, wpc, notProc>>

\* the poll yields pending
Run_PollPending ==
    /\ epc = "polling"
    /\ polls + 1 < MaxPolls
    /\ polls' = polls + 1
    /\ epc' = "pending_loop"
    /\ UNCHANGED <<taskVars, reads, outputDrops, someCount, handleVars,
                   closedBy, estate, eoutput, wakerVars, notProc>>

\* the poll yields ready: the output replaces the computation in the slot
Run_PollReady ==
    /\ epc = "polling"
    /\ polls' = polls + 1
    /\ slot' = "output"
    /\ epc' = "ready_loop"
    /\ UNCHANGED <<state, awaiter, destroyed, queued, wakes, reads,
                   outputDrops, someCount, handleVars, closedBy, estate,
                   eoutput, wakerVars, notProc>>

\* clears RUNNING, sets COMPLETED; with the handle gone also CLOSED
ReadyNew(s) ==
    IF ~Has(s, HANDLE)
    THEN Or(Or(Clear(Clear(s, RUNNING), SCHEDULED), COMPLETED), CLOSED)
    ELSE Or(Clear(Clear(s, RUNNING), SCHEDULED), COMPLETED)

\* the output has no taker: the executor reads it out to drop it
ReadyDropsOutput(s) == ~Has(s, HANDLE) \/ Has(s, CLOSED)

Run_ReadyCasOk ==
    /\ epc = "ready_loop"
    /\ state = estate
    /\ state' = ReadyNew(estate)
    /\ closedBy' = IF ~Has(estate, CLOSED) /\ Has(ReadyNew(estate), CLOSED)
                   THEN "run" ELSE closedBy
    /\ IF ReadyDropsOutput(estate)
       THEN slot' = ReadOutput(slot) /\ reads' = reads + 1 /\ eoutput' = TRUE
       ELSE UNCHANGED <<slot, reads, eoutput>>
    /\ epc' = IF Has(estate, AWAITER) THEN "run_notify" ELSE "run_decrement"
    /\ UNCHANGED <<awaiter, destroyed, queued, wakes, polls, outputDrops,
                   someCount, handleVars, estate, wakerVars, notProc>>

Run_ReadyCasErr ==
    /\ epc = "ready_loop"
    /\ state # estate
    /\ estate' = state
    /\ UNCHANGED <<taskVars, countVars, handleVars, closedBy, epc, eoutput,
                   wakerVars, notProc>>

\* clears RUNNING; a task closed while running is also unscheduled
PendingNew(s) ==
    IF Has(s, CLOSED) THEN Clear(Clear(s, RUNNING), SCHEDULED) ELSE Clear(s, RUNNING)

Run_PendingCasOk ==
    /\ epc = "pending_loop"
    /\ state = estate
    /\ state' = PendingNew(estate)
    /\ IF Has(estate, CLOSED)
       THEN \* closed while running: drop the computation
            /\ slot' = DropFuture(slot)
            /\ epc' = "run_decrement"
            /\ queued' = queued
       ELSE IF Has(estate, SCHEDULED)
            THEN \* woken while running: re-submit, the reference goes along
                 /\ queued' = queued + 1
                 /\ epc' = "idle"
                 /\ slot' = slot
            ELSE /\ epc' = "run_decrement"
                 /\ UNCHANGED <<slot, queued>>
    /\ estate' = IF epc' = "idle" THEN 0 ELSE estate
    /\ UNCHANGED <<awaiter, destroyed, wakes, countVars, handleVars, closedBy,
                   eoutput, wakerVars, notProc>>

Run_PendingCasErr ==
    /\ epc = "pending_loop"
    /\ state # estate
    /\ estate' = state
    /\ UNCHANGED <<taskVars, countVars, handleVars, closedBy, epc, eoutput,
                   wakerVars, notProc>>

\* notifies the awaiter that the task has been completed or closed
Run_Notify ==
    /\ epc = "run_notify"
    /\ notify
    /\ epc' = "run_decrement"
    /\ UNCHANGED <<slot, destroyed, queued, countVars, handleVars, closedBy,
                   estate, eoutput, wakerVars, notProc>>

\* drops the task reference, then the output that was read out; run returns
\* and its local `state` goes out of scope
Run_Decrement ==
    /\ epc = "run_decrement"
    /\ state' = Decrement(state)
    /\ IF DecrementDestroys(state)
       THEN /\ destroyed' = destroyed + 1
            /\ slot' = DestroySlot(slot)
            /\ outputDrops' = outputDrops + DestroyDrops(slot)
                                + (IF eoutput THEN 1 ELSE 0)
       ELSE /\ UNCHANGED <<destroyed, slot>>
            /\ outputDrops' = outputDrops + (IF eoutput THEN 1 ELSE 0)
    /\ eoutput' = FALSE
    /\ epc' = "idle"
    /\ estate' = 0
    /\ UNCHANGED <<awaiter, queued, wakes, polls, reads, someCount,
                   handleVars, closedBy, wakerVars, notProc>>

run ==
    \/ Run_Take
    \/ Run_Closed
    \/ Run_CasOk
    \/ Run_CasErr
    \/ Run_CloneWaker
    \/ Run_PollPending
    \/ Run_PollReady
    \/ Run_ReadyCasOk
    \/ Run_ReadyCasErr
    \/ Run_PendingCasOk
    \/ Run_PendingCasErr
    \/ Run_Notify
    \/ Run_Decrement

(***************************************************************************)
(* Holders of a clone of the task's waker: wake (a wake-up re-schedules    *)
(* the task) and drop.                                                      *)
(***************************************************************************)
\* wake: a completed, closed or already scheduled task is left as it is and
\* the waker is dropped; otherwise SCHEDULED is set, and the task is
\* submitted unless it is running
Waker_Wake ==
    /\ wpc = "idle"
    /\ wakersOut > 0
    /\ wakersOut' = wakersOut - 1
    /\ IF Has(state, COMPLETED) \/ Has(state, CLOSED) \/ Has(state, SCHEDULED)
       THEN /\ wpc' = "decrement"
            /\ UNCHANGED <<state, queued>>
       ELSE /\ state' = Or(state, SCHEDULED)
            /\ IF Has(state, RUNNING)
               THEN wpc' = "decrement" /\ queued' = queued
               ELSE wpc' = "idle" /\ queued' = queued + 1
    /\ UNCHANGED <<awaiter, slot, destroyed, wakes, countVars, handleVars,
                   closedBy, execVars, notProc>>

Waker_Decrement ==
    /\ wpc = "decrement"
    /\ state' = Decrement(state)
    /\ IF DecrementDestroys(state)
       THEN /\ destroyed' = destroyed + 1
            /\ slot' = DestroySlot(slot)
            /\ outputDrops' = outputDrops + DestroyDrops(slot)
       ELSE UNCHANGED <<destroyed, slot, outputDrops>>
    /\ wpc' = "idle"
    /\ UNCHANGED <<awaiter, queued, wakes, polls, reads, someCount,
                   handleVars, closedBy, execVars, wakersOut, notProc>>

\* drop of a waker: the last reference of a task without handle either
\* schedules the task once more, closed, so that the executor drops the
\* computation, or destroys it
Waker_Drop ==
    /\ wpc = "idle"
    /\ wakersOut > 0
    /\ wakersOut' = wakersOut - 1
    /\ IF DecrementDestroys(state)
       THEN IF ~Has(state, COMPLETED) /\ ~Has(state, CLOSED)
            THEN /\ state' = SCHEDULED + CLOSED + REFERENCE
                 /\ closedBy' = "waker"
                 /\ queued' = queued + 1
                 /\ UNCHANGED <<destroyed, slot, outputDrops>>
            ELSE /\ state' = Decrement(state)
                 /\ destroyed' = destroyed + 1
                 /\ slot' = DestroySlot(slot)
                 /\ outputDrops' = outputDrops + DestroyDrops(slot)
                 /\ UNCHANGED <<closedBy, queued>>
       ELSE /\ state' = Decrement(state)
            /\ UNCHANGED <<destroyed, slot, outputDrops, closedBy, queued>>
    /\ UNCHANGED <<awaiter, wakes, polls, reads, someCount, handleVars,
                   execVars, wpc, notProc>>

waker ==
    \/ Waker_Wake
    \/ Waker_Decrement
    \/ Waker_Drop


(***************************************************************************)
(* broadcast.rs: the supervision bus. A bus instance is a Broadcast value; *)
(* its channel is the pair (sender, recver). unbounded_send appends to the *)
(* channel unless the receiver has been dropped, in which case it returns  *)
(* an error, which every caller discards with .ok().                        *)
(***************************************************************************)
Buses == 1 .. MaxBuses
Ids == 1 .. NumIds
NoBus == 0

\* BastionMessage
PoisonPill == [kind |-> "PoisonPill", id |-> 0]
Dead(id) == [kind |-> "Dead", id |-> id]
Faulted(id) == [kind |-> "Faulted", id |-> id]
Message == [kind |-> "Message", id |-> 0]

\* Broadcast::new(id): no parent, no children, a fresh channel. The fields
\* kids and told record, for the call of dead or faulted in progress or last
\* made, the children registered when it began and whether the parent's
\* channel accepted its notification; replaced records that the parent's
\* registry entry of this bus was overwritten by a new_child of the same id.
NewBus(id, parent) ==
    [made |-> TRUE, id |-> id, parent |-> parent,
     children |-> [i \in Ids |-> NoBus], open |-> TRUE, pc |-> "idle",
     kids |-> {}, told |-> FALSE, replaced |-> FALSE]

NotMade ==
    [made |-> FALSE, id |-> 0, parent |-> NoBus,
     children |-> [i \in Ids |-> NoBus], open |-> FALSE, pc |-> "idle",
     kids |-> {}, told |-> FALSE, replaced |-> FALSE]

\* the buses and channels an operation works on
World == [bus |-> bus, inbox |-> inbox]

\* the child buses whose senders are in b's registry
Children(w, b) == {w.bus[b].children[i] : i \in Ids} \ {NoBus}

\* sender.unbounded_send(msg).ok() on the channel of bus c
unbounded_send(w, c, msg) ==
    IF w.bus[c].open
    THEN [w EXCEPT !.inbox[c] = Append(@, msg)]
    ELSE w

\* lines 104-110
send_parent(w, b, msg) ==
    IF w.bus[b].parent # NoBus
    THEN unbounded_send(w, w.bus[b].parent, msg)
    ELSE w

\* a child whose channel is found closed is taken out of the registry
send_child_prunes(w, b, id, msg) ==
    LET c == w.bus[b].children[id]
    IN IF c = NoBus THEN w
       ELSE IF w.bus[c].open THEN unbounded_send(w, c, msg)
       ELSE [w EXCEPT !.bus[b].children[id] = NoBus]

\* lines 112-118
send_child(w, b, id, msg) ==
    IF w.bus[b].children[id] # NoBus
    THEN unbounded_send(w, w.bus[b].children[id], msg)
    ELSE w

\* a send that fails ends the loop: nothing is delivered once a child's
\* receiver is found dropped
send_children_stops(w, b, msg) ==
    IF \E c \in Children(w, b) : ~w.bus[c].open
    THEN w
    ELSE [w EXCEPT !.inbox =
            [c \in Buses |->
                IF c \in Children(w, b)
                THEN Append(w.inbox[c], msg)
                ELSE w.inbox[c]]]

\* lines 120-125: one clone of msg to every sender of the registry; the
\* channels are distinct, so the iteration order of the map does not show
send_children(w, b, msg) ==
    [w EXCEPT !.inbox =
        [c \in Buses |->
            IF c \in Children(w, b) /\ w.bus[c].open
            THEN Append(w.inbox[c], msg)
            ELSE w.inbox[c]]]

\* lines 96-98
remove_child(w, b, id) == [w EXCEPT !.bus[b].children[id] = NoBus]

\* lines 100-102
clear_children(w, b) == [w EXCEPT !.bus[b].children = [i \in Ids |-> NoBus]]

\* lines 69-72
poison_pill_child(w, b, id) == remove_child(send_child(w, b, id, PoisonPill), b, id)

\* the pills are sent and the registry is kept
poison_pill_children_keeps(w, b) == send_children(w, b, PoisonPill)

\* lines 74-77
poison_pill_children(w, b) == clear_children(send_children(w, b, PoisonPill), b)

\* the registry keeps the sender it already has under the id
new_child_keeps(w, b, c, id) ==
    IF w.bus[b].children[id] # NoBus
    THEN [w EXCEPT !.bus[c] = NewBus(id, b)]
    ELSE [w EXCEPT !.bus[c] = NewBus(id, b),
                   !.bus[b].children[id] = c]

\* lines 89-94 with with_parent, lines 47-59: the child c is a fresh bus
\* whose parent is b's sender; its sender goes into the registry under id
new_child(w, b, c, id) ==
    LET old == w.bus[b].children[id]
        w1 == IF old # NoBus THEN [w EXCEPT !.bus[old].replaced = TRUE] ELSE w
    IN [w1 EXCEPT !.bus[c] = NewBus(id, b),
                  !.bus[b].children[id] = c]

\* dead and faulted make their two calls in the wrong order
TerminationOrderSwapped == <<"send_parent", "poison_pill_children">>

\* lines 79-82 and 84-87: the two calls dead and faulted make, in order
TerminationOrder == <<"poison_pill_children", "send_parent">>

\* the notification carries the id of the parent the bus was created with
TerminationMsgOfParent(w, b, how) ==
    LET p == w.bus[b].parent
        id == IF p = NoBus THEN w.bus[b].id ELSE w.bus[p].id
    IN IF how = "dead" THEN Dead(id) ELSE Faulted(id)

\* BastionMessage::dead / BastionMessage::faulted of the bus's own id
TerminationMsg(w, b, how) ==
    IF how = "dead" THEN Dead(w.bus[b].id) ELSE Faulted(w.bus[b].id)

\* the n-th call of dead (how = "dead") or faulted (how = "faulted")
TerminationCall(w, b, how, n) ==
    IF TerminationOrder[n] = "poison_pill_children"
    THEN poison_pill_children(w, b)
    ELSE LET w2 == send_parent(w, b, TerminationMsg(w, b, how))
         IN [w2 EXCEPT !.bus[b].told = (w2.inbox # w.inbox)]

\* a call is made and leaves the buses and channels as in w
Commit(w) ==
    /\ ops < MaxOps
    /\ ops' = IF w = World THEN ops ELSE ops + 1
    /\ bus' = w.bus
    /\ inbox' = w.inbox
    /\ UNCHANGED <<procVars, lbVars>>

\* a call in progress goes on and leaves the buses and channels as in w
Continue(w) ==
    /\ ops' = ops
    /\ bus' = w.bus
    /\ inbox' = w.inbox
    /\ UNCHANGED <<procVars, lbVars>>

\* a bus whose owner can call it: it exists, was not dropped and is not
\* inside dead or faulted
Callable(b) == bus[b].made /\ bus[b].open /\ bus[b].pc = "idle"

\* the next bus instance to be created
Fresh(c) == ~bus[c].made /\ \A d \in Buses : d < c => bus[d].made

Bus_new_child(b, id) ==
    /\ Callable(b)
    /\ \E c \in Buses : Fresh(c) /\ Commit(new_child(World, b, c, id))
    /\ called' = [op |-> "new_child", bus |-> b, id |-> id, msg |-> Message,
                  at |-> ops]

Bus_remove_child(b, id) ==
    /\ Callable(b)
    /\ Commit(remove_child(World, b, id))
    /\ called' = [op |-> "remove_child", bus |-> b, id |-> id, msg |-> Message,
                  at |-> ops]

Bus_clear_children(b) ==
    /\ Callable(b)
    /\ Commit(clear_children(World, b))
    /\ called' = [op |-> "clear_children", bus |-> b, id |-> 0, msg |-> Message,
                  at |-> ops]

Bus_send_parent(b, msg) ==
    /\ Callable(b)
    /\ Commit(send_parent(World, b, msg))
    /\ called' = [op |-> "send_parent", bus |-> b, id |-> 0, msg |-> msg,
                  at |-> ops]

Bus_send_child(b, id, msg) ==
    /\ Callable(b)
    /\ Commit(send_child(World, b, id, msg))
    /\ called' = [op |-> "send_child", bus |-> b, id |-> id, msg |-> msg,
                  at |-> ops]

Bus_send_children(b, msg) ==
    /\ Callable(b)
    /\ Commit(send_children(World, b, msg))
    /\ called' = [op |-> "send_children", bus |-> b, id |-> 0, msg |-> msg,
                  at |-> ops]

Bus_poison_pill_child(b, id) ==
    /\ Callable(b)
    /\ Commit(poison_pill_child(World, b, id))
    /\ called' = [op |-> "poison_pill_child", bus |-> b, id |-> id, msg |-> PoisonPill,
                  at |-> ops]

Bus_poison_pill_children(b) ==
    /\ Callable(b)
    /\ Commit(poison_pill_children(World, b))
    /\ called' = [op |-> "poison_pill_children", bus |-> b, id |-> 0, msg |-> PoisonPill,
                  at |-> ops]

\* dead() or faulted() is entered and makes its first call
Bus_terminate_first(b, how) ==
    /\ Callable(b)
    /\ LET w0 == [World EXCEPT !.bus[b].kids = Children(World, b),
                               !.bus[b].told = FALSE,
                               !.bus[b].pc = how]
       IN Commit(TerminationCall(w0, b, how, 1))
    /\ called' = [op |-> how, bus |-> b, id |-> 0, msg |-> TerminationMsg(World, b, how),
                  at |-> ops]

\* it makes its second call and returns
Bus_terminate_second(b) ==
    /\ bus[b].made
    /\ bus[b].pc # "idle"
    /\ LET w1 == TerminationCall(World, b, bus[b].pc, 2)
       IN Continue([w1 EXCEPT !.bus[b].pc = "idle"])
    /\ UNCHANGED called

\* lines 12-18: the Broadcast value is dropped and its receiver with it; the
\* senders others hold of it fail from now on
Bus_drop(b) ==
    /\ Callable(b)
    /\ Commit([World EXCEPT !.bus[b].open = FALSE])
    /\ called' = [op |-> "drop", bus |-> b, id |-> 0, msg |-> Message,
                  at |-> ops]

\* the messages callers send on their own
SendMsgs == {Message, PoisonPill}

BusNext ==
    \/ \E b \in Buses, id \in Ids : Bus_new_child(b, id)
    \/ \E b \in Buses, id \in Ids : Bus_remove_child(b, id)
    \/ \E b \in Buses : Bus_clear_children(b)
    \/ \E b \in Buses, msg \in SendMsgs : Bus_send_parent(b, msg)
    \/ \E b \in Buses, id \in Ids, msg \in SendMsgs : Bus_send_child(b, id, msg)
    \/ \E b \in Buses, msg \in SendMsgs : Bus_send_children(b, msg)
    \/ \E b \in Buses, id \in Ids : Bus_poison_pill_child(b, id)
    \/ \E b \in Buses : Bus_poison_pill_children(b)
    \/ \E b \in Buses, how \in {"dead", "faulted"} : Bus_terminate_first(b, how)
    \/ \E b \in Buses : Bus_terminate_second(b)
    \/ \E b \in Buses : Bus_drop(b)

\* one root bus, Broadcast::new, lines 33-45
BusInit ==
    /\ bus = [b \in Buses |-> IF b = 1 THEN NewBus(1, NoBus) ELSE NotMade]
    /\ inbox = [b \in Buses |-> <<>>]
    /\ ops = 0
    /\ called = [op |-> "new", bus |-> 1, id |-> 1, msg |-> Message, at |-> 0]

(***************************************************************************)
(* load_balancer.rs: the statistics behind a ShardedLock and the sampler   *)
(* thread. The workers that publish their queue depths are outside the     *)
(* file; they take the lock for writing or for reading and release it.     *)
(***************************************************************************)
Cores == 1 .. MaxCores
Depths == 0 .. MaxDepth

RECURSIVE SumOver(_, _)
SumOver(q, S) ==
    IF S = {} THEN 0
    ELSE LET c == CHOOSE x \in S : TRUE
         IN q[c] + SumOver(q, S \ {c})

\* lines 20-23: smp_queues.values().sum::<usize>()
SumDepths(q) == SumOver(q, DOMAIN q)

\* line 24: usize::wrapping_div panics when the divisor is zero (the thread
\* unwinds); no quotient of two usize wraps
wrapping_div(a, b) ==
    IF b = 0
    THEN [panic |-> TRUE, value |-> 0]
    ELSE [panic |-> FALSE, value |-> a \div b]

\* lines 47-66: the first access to stats() builds the statistics and
\* starts the sampler; the topology layer gives the number of cores
Stats_Init ==
    /\ lbpc = "init"
    /\ \E n \in 0 .. MaxCores : core_count' = n
    /\ lbpc' = "try_read"
    /\ UNCHANGED <<lock, smp_queues, mean_level, m, lbread, lbstored, notLb>>

\* lines 18-25, try_read is Ok: no writer holds the lock; the mean is
\* computed under the read guard, which is released at the end of the block
Sample_ReadOk ==
    /\ lbpc = "try_read"
    /\ lock # "write"
    /\ LET r == wrapping_div(SumDepths(smp_queues), core_count)
       IN IF r.panic
          THEN lbpc' = "panicked" /\ m' = m
          ELSE lbpc' = "try_write" /\ m' = r.value
    /\ lbread' = TRUE
    /\ UNCHANGED <<lock, smp_queues, mean_level, core_count, lbstored, notLb>>

\* lines 18-19, try_read is Err: a writer holds the lock; m stays 0
Sample_ReadErr ==
    /\ lbpc = "try_read"
    /\ lock = "write"
    /\ lbpc' = "try_write"
    /\ lbread' = FALSE
    /\ UNCHANGED <<lock, smp_queues, mean_level, core_count, m, lbstored, notLb>>

\* lines 27-29, try_write is Ok: nobody holds the lock; m is stored and the
\* next iteration begins with m = 0
Sample_WriteOk ==
    /\ lbpc = "try_write"
    /\ lock = "free"
    /\ mean_level' = m
    /\ lbstored' = IF lbread THEN "computed" ELSE "default"
    /\ lbpc' = "try_read"
    /\ m' = 0
    /\ lbread' = FALSE
    /\ UNCHANGED <<lock, smp_queues, core_count, notLb>>

\* line 27, try_write is Err: a reader or a writer holds the lock
Sample_WriteErr ==
    /\ lbpc = "try_write"
    /\ lock # "free"
    /\ lbpc' = "try_read"
    /\ m' = 0
    /\ lbread' = FALSE
    /\ UNCHANGED <<lock, smp_queues, mean_level, core_count, lbstored, notLb>>

\* a worker or a scheduler takes the lock
Worker_Lock(how) ==
    /\ lbpc # "init"
    /\ lock = "free"
    /\ lock' = how
    /\ UNCHANGED <<smp_queues, mean_level, core_count, lbpc, m, lbread, lbstored, notLb>>

\* a worker publishes the depth of its queue under the write lock
Worker_Publish(c, d) ==
    /\ lock = "write"
    /\ smp_queues' = [smp_queues EXCEPT ![c] = d]
    /\ UNCHANGED <<lock, mean_level, core_count, lbpc, m, lbread, lbstored, notLb>>

\* the guard is dropped
Worker_Unlock ==
    /\ lock # "free"
    /\ lock' = "free"
    /\ UNCHANGED <<smp_queues, mean_level, core_count, lbpc, m, lbread, lbstored, notLb>>

LbNext ==
    \/ Stats_Init
    \/ Sample_ReadOk
    \/ Sample_ReadErr
    \/ Sample_WriteOk
    \/ Sample_WriteErr
    \/ \E how \in {"read", "write"} : Worker_Lock(how)
    \/ \E c \in Cores, d \in Depths : Worker_Publish(c, d)
    \/ Worker_Unlock

\* lines 49-57: nothing was sampled yet and the statistics are not built
LbInit ==
    /\ lock = "free"
    /\ smp_queues = [c \in Cores |-> 0]
    /\ mean_level = 0
    /\ core_count = 0
    /\ lbpc = "init"
    /\ m = 0
    /\ lbread = FALSE
    /\ lbstored = "none"


(***************************************************************************)
(* The task right after construction: SCHEDULED | HANDLE | REFERENCE, the  *)
(* computation in the slot, the task submitted to the executor once and    *)
(* the handle with its owner.                                               *)
(***************************************************************************)
ProcInit ==
    /\ state = SCHEDULED + HANDLE + REFERENCE
    /\ awaiter = NoWaker
    /\ slot = "future"
    /\ destroyed = 0
    /\ queued = 1
    /\ wakes = {}
    /\ polls = 0
    /\ reads = 0
    /\ outputDrops = 0
    /\ someCount = 0
    /\ hpc = "idle"
    /\ hstate = 0
    /\ hentry = 0
    /\ hwaker = NoWaker
    /\ houtput = FALSE
    /\ hret = "none"
    /\ closedBy = "none"
    /\ epc = "idle"
    /\ estate = 0
    /\ eoutput = FALSE
    /\ wakersOut = 0
    /\ wpc = "idle"

Init == ProcInit /\ BusInit /\ LbInit

Next ==
    \/ cancel
    \/ drop
    \/ poll
    \/ run
    \/ waker

Spec == Init /\ [][Next]_vars

\* the supervision tree on its own
BusSpec == Init /\ [][BusNext]_vars

\* the sampler thread and the workers around the statistics
LbSpec == Init /\ [][LbNext]_vars


\* the executor is a running thread: a step of run that stays possible is
\* eventually taken
FairSpec == Spec /\ WF_vars(run)

(***************************************************************************)
(* Properties                                                               *)
(***************************************************************************)
PollPcs == {"poll_loop", "poll_reload", "poll_cas", "poll_notify", "poll_take"}

CancelPcs == {"cancel_loop", "cancel_schedule", "cancel_notify"}

\* no thread is inside an operation and nothing is left to run
Quiescent ==
    /\ hpc \in {"idle", "gone"}
    /\ epc = "idle"
    /\ wpc = "idle"
    /\ queued = 0
    /\ wakersOut = 0

\* the handle's owner made a step
HandleStep == <<hpc, hstate>>' # <<hpc, hstate>>

\* C1: the output is consumed exactly once. It is read out of the slot at
\* most once; at most one handle poll returns Some(output), and no poll after
\* it returns Some or Pending; it is never both returned and dropped, nor
\* dropped twice; and once nothing is in flight, an output that was produced
\* has been returned or dropped.
OutputConsumedOnce ==
    /\ slot # "corrupt"
    /\ reads <= 1
    /\ someCount <= 1
    /\ outputDrops <= 1
    /\ someCount + outputDrops <= 1
    /\ (someCount = 1 /\ hpc = "idle") => hret \in {"Some", "None", "cancel"}
    /\ (Quiescent /\ slot = "taken") => someCount + outputDrops = 1
    /\ (Quiescent /\ hpc = "gone") => slot # "output"

\* a poll after the one that returned Some(output) has returned None
OutputConsumedOnceWitness == someCount = 1 /\ hpc = "idle" /\ hret = "None"

\* C2: cancel on a task whose state has COMPLETED or CLOSED set is a no-op:
\* every step of the call leaves the state word, the executor's queue and
\* the awaiter untouched, and the call returns.
CancelCompletedNoop ==
    [][(/\ hpc \in CancelPcs
        /\ (Has(hentry, COMPLETED) \/ Has(hentry, CLOSED))
        /\ HandleStep)
       => (UNCHANGED <<state, queued, awaiter, wakes>> /\ hpc' = "idle")]_vars

\* cancel has returned from a task that was completed, with an awaiter
\* registered that it could have notified
CancelCompletedNoopWitness ==
    /\ hpc = "idle"
    /\ hret = "cancel"
    /\ Has(hentry, COMPLETED)
    /\ Has(hentry, AWAITER)
    /\ awaiter # NoWaker


\* cancel has returned from a call that found the task completed, its
\* output not yet read
CancelledCompletedUnread ==
    /\ hpc = "idle"
    /\ hret = "cancel"
    /\ Has(hentry, COMPLETED)
    /\ ~Has(hentry, CLOSED)

\* C3 as stated: cancelling a task that is completed but whose output has
\* not been read marks the task CLOSED, so that the output is dropped rather
\* than returned.
CancelCompletedCloses ==
    CancelledCompletedUnread => (Has(state, CLOSED) /\ slot # "output")

\* C3, amended: cancelling a task that is completed but whose output has not
\* been read changes nothing: CLOSED is not raised and the output stays in
\* the slot, neither returned nor dropped; the handle poll that follows
\* returns Some(output).
CancelCompletedKeepsOutput ==
    /\ [](CancelledCompletedUnread =>
            /\ ~Has(state, CLOSED)
            /\ slot = "output"
            /\ someCount = 0
            /\ outputDrops = 0)
    /\ [][(/\ hret = "cancel"
           /\ hpc \in PollPcs
           /\ Has(hentry, COMPLETED)
           /\ ~Has(hentry, CLOSED)
           /\ hpc' = "idle")
          => hret' = "Some"]_vars

\* the poll that follows a cancel of a completed task is about to hand out
\* the output
CancelCompletedKeepsOutputWitness ==
    /\ hret = "cancel"
    /\ hpc = "poll_take"
    /\ slot = "output"

\* C4: destroy is invoked exactly once over the task's lifetime: never twice,
\* never while a reference is left or the handle is live or a thread is
\* still inside the task, and always once the last reference and the handle
\* are gone.
DestroyExactlyOnce ==
    /\ destroyed <= 1
    /\ destroyed = 1 =>
          /\ RefCount(state) = 0
          /\ ~Has(state, HANDLE)
          /\ hpc \in {"drop_output", "gone"}
          /\ epc = "idle"
          /\ wpc = "idle"
          /\ queued = 0
          /\ wakersOut = 0
    /\ (RefCount(state) = 0 /\ hpc = "gone") => destroyed = 1
    /\ (Quiescent /\ hpc = "gone") => destroyed = 1

\* the task was destroyed after the executor ran it, the handle dropped
DestroyExactlyOnceWitness == destroyed = 1 /\ hpc = "gone" /\ polls > 0

\* C5 as stated: dropping the handle before completion, off the fast path,
\* leaves the task CLOSED.
DropBeforeCompletionCloses ==
    (hpc = "gone" /\ ~Has(hentry, COMPLETED) /\ hentry # DropFastOld)
        => Has(state, CLOSED)

\* C5, amended: dropping the handle before the task has completed unsets
\* HANDLE. It closes the task only if no reference was left (the task is
\* then SCHEDULED | CLOSED with one reference and is scheduled, so that the
\* executor drops the computation); a task with a reference left is not
\* closed by the drop and may still be polled to completion, and the output
\* is then dropped, never returned.
DropBeforeCompletionDetaches ==
    /\ [][(hpc = "drop_loop" /\ hpc' \in {"drop_schedule", "drop_destroy", "drop_output"})
          => /\ ~Has(state', HANDLE)
             /\ Has(state', CLOSED) <=> (Has(state, CLOSED) \/ RefCount(state) = 0)
             /\ (RefCount(state) = 0 /\ ~Has(state, CLOSED))
                   => (state' = SCHEDULED + CLOSED + REFERENCE /\ hpc' = "drop_schedule")
             /\ (RefCount(state) # 0 \/ Has(state, CLOSED))
                   => state' = Clear(state, HANDLE)]_vars
    /\ [][(hpc = "idle" /\ hpc' = "gone") => state' = Clear(state, HANDLE)]_vars
    /\ []((hpc = "gone" /\ ~Has(hentry, COMPLETED)) => someCount = 0)
    /\ []((hpc = "gone" /\ ~Has(hentry, COMPLETED) /\ Quiescent /\ slot = "taken")
            => outputDrops = 1)

\* the drop of the last reference closed a task that had not completed
DropBeforeCompletionDetachesWitness ==
    /\ hpc = "gone"
    /\ closedBy = "drop"
    /\ ~Has(hentry, COMPLETED)
    /\ hentry # DropFastOld

\* C6: once cancel has raised CLOSED on a task that was not completed, no
\* handle poll returns Some(output) and every poll that returns afterwards
\* returns None, whatever the executor does.
CancelledPollsNone ==
    closedBy \in {"cancel", "cancel_unrun"} =>
        /\ someCount = 0
        /\ hpc \in PollPcs => hpc \in {"poll_loop", "poll_reload"}
        /\ hpc = "idle" => hret \in {"cancel", "None"}

\* cancelled while running, the executor completed the poll in flight, and
\* the handle poll returned None
CancelledPollsNoneWitness ==
    /\ closedBy = "cancel"
    /\ Has(state, COMPLETED)
    /\ hpc = "idle"
    /\ hret = "None"

\* C7: a task cancelled before the executor ever ran it is never polled; the
\* executor, when it takes the task, drops the computation, which under fair
\* scheduling of the executor eventually happens; handle polls yield None.
CancelUnrunNeverPolled ==
    /\ [](closedBy = "cancel_unrun" => polls = 0 /\ slot \in {"future", "empty"})
    /\ [](closedBy = "cancel_unrun" /\ hpc = "idle" => hret \in {"cancel", "None"})
    /\ (closedBy = "cancel_unrun" ~> slot = "empty")

\* the computation of a never-run, cancelled task was dropped and the poll
\* returned None
CancelUnrunNeverPolledWitness ==
    /\ closedBy = "cancel_unrun"
    /\ slot = "empty"
    /\ polls = 0
    /\ hret = "None"

\* C8: RUNNING and COMPLETED are never both set.
NotRunningAndCompleted == ~(Has(state, RUNNING) /\ Has(state, COMPLETED))

\* a task cancelled while it was running has completed
NotRunningAndCompletedWitness ==
    /\ closedBy = "cancel"
    /\ Has(state, COMPLETED)
    /\ Has(hentry, RUNNING)

\* C9: dropping the handle of a completed, not closed task raises CLOSED,
\* reads the output out of the slot and drops it once before the drop
\* returns; destroy finds no output in the slot.
DropCompletedDropsOutput ==
    /\ (hpc = "gone" /\ Has(hentry, COMPLETED) /\ ~Has(hentry, CLOSED)) =>
          /\ Has(state, CLOSED)
          /\ closedBy = "drop"
          /\ slot = "taken"
          /\ reads = 1
          /\ outputDrops = 1
          /\ someCount = 0
    /\ hpc = "drop_destroy" => slot # "output"

\* the handle of a completed task was dropped and its output with it
DropCompletedDropsOutputWitness ==
    /\ hpc = "gone"
    /\ Has(hentry, COMPLETED)
    /\ ~Has(hentry, CLOSED)
    /\ houtput
    /\ outputDrops = 1


\* some message of the channel's is a PoisonPill
HasPill(c) == \E i \in 1 .. Len(inbox[c]) : inbox[c][i] = PoisonPill

\* C10 as stated: by the time the parent's channel holds the Dead or Faulted
\* message of a bus, the channel of every child that was in the registry
\* holds its PoisonPill.
PoisonBeforeNotify ==
    \A b \in Buses : bus[b].told => \A c \in bus[b].kids : HasPill(c)

\* C10, amended: by the time the parent's channel holds the Dead or Faulted
\* message of a bus, the channel of every child that was in the registry and
\* whose receiver has not been dropped holds its PoisonPill.
PoisonOpenBeforeNotify ==
    \A b \in Buses : bus[b].told =>
        \A c \in bus[b].kids : bus[c].open => HasPill(c)

\* a bus with two children has told its parent that it is dead or faulted
PoisonOpenBeforeNotifyWitness ==
    \E b \in Buses :
        /\ bus[b].told
        /\ Cardinality(bus[b].kids) >= 2
        /\ \A c \in bus[b].kids : bus[c].open /\ HasPill(c)

\* the step is the call op of a bus, made from the first line to the last
\* (dead and faulted: to the end of their first call)
Called(op) == called' # called /\ called'.op = op

\* the children of b's registry before the step
Registered(b) == Children(World, b)

\* the buses created as children of b that are not in its registry
Unregistered(b) == {c \in Buses : bus[c].made /\ bus[c].parent = b} \ Registered(b)

\* C11: send_children(m) appends exactly one copy of m to the channel of
\* each child in the registry whose receiver is alive; the channel of every
\* other bus, a registered child whose receiver was dropped included, stays
\* as it was; the registry and every other field of the buses is unchanged.
SendChildrenDelivers ==
    [][Called("send_children") =>
        LET b == called'.bus
        IN /\ \A c \in Buses :
                 inbox'[c] = IF c \in Registered(b) /\ bus[c].open
                             THEN Append(inbox[c], called'.msg)
                             ELSE inbox[c]
           /\ bus' = bus]_vars

\* send_children was called on a bus with a child whose receiver was dropped
\* and a child whose receiver is alive, which holds the message
SendChildrenDeliversWitness ==
    /\ called.op = "send_children"
    /\ \E c, d \in Children(World, called.bus) :
          /\ ~bus[c].open
          /\ bus[d].open
          /\ inbox[c] = <<>>
          /\ inbox[d] = <<called.msg>>

\* the registry with no entry
NoChildren == [i \in Ids |-> NoBus]

\* C12 as stated: after poison_pill_children() each child that was in the
\* registry has received exactly one PoisonPill and the registry is empty.
PoisonPillChildrenReachesAll ==
    [][Called("poison_pill_children") =>
        LET b == called'.bus
        IN /\ \A c \in Registered(b) : inbox'[c] = Append(inbox[c], PoisonPill)
           /\ bus'[b].children = NoChildren]_vars

\* C12, amended: poison_pill_children() appends exactly one PoisonPill to the
\* channel of each child of the registry whose receiver has not been dropped
\* and nothing to any other channel, and it leaves the registry empty; a
\* later send_child or send_children of that bus delivers nothing to a bus
\* that was its child and is not in its registry.
PoisonPillChildrenReachesOpen ==
    [][/\ Called("poison_pill_children") =>
            LET b == called'.bus
            IN /\ \A c \in Buses :
                     inbox'[c] = IF c \in Registered(b) /\ bus[c].open
                                 THEN Append(inbox[c], PoisonPill)
                                 ELSE inbox[c]
               /\ bus' = [bus EXCEPT ![b].children = NoChildren]
       /\ (Called("send_child") \/ Called("send_children")) =>
            \A c \in Unregistered(called'.bus) : inbox'[c] = inbox[c]]_vars

\* poison_pill_children was called on a bus with a child whose receiver is
\* alive and one whose receiver was dropped: the first holds one PoisonPill,
\* the second nothing, and the registry is empty
PoisonPillChildrenReachesOpenWitness ==
    /\ called.op = "poison_pill_children"
    /\ bus[called.bus].children = NoChildren
    /\ \E c, d \in Unregistered(called.bus) :
          /\ ~bus[c].open
          /\ bus[d].open
          /\ inbox[c] = <<>>
          /\ inbox[d] = <<PoisonPill>>

\* C13: in a tree root -> parent -> child built with new_child, child.faulted()
\* puts exactly one Faulted message carrying the child's own id into the
\* receiver of the immediate parent and nothing into any other receiver but
\* those of the child's own children, the root's included; when it returns
\* the child's registry is empty. The same holds for dead() with Dead.
TerminationTellsParentOnly ==
    [][\A b \in Buses :
        /\ (bus[b].pc = "idle" /\ bus'[b].pc # "idle") =>
              /\ bus'[b].children = NoChildren
              /\ \A c \in Buses \ Registered(b) : inbox'[c] = inbox[c]
        /\ (bus[b].pc # "idle" /\ bus'[b].pc = "idle") =>
              LET p == bus[b].parent
                  msg == IF bus[b].pc = "faulted"
                         THEN Faulted(bus[b].id) ELSE Dead(bus[b].id)
              IN /\ bus'[b].children = NoChildren
                 /\ \A c \in Buses :
                       inbox'[c] = IF c = p /\ bus[p].open
                                   THEN Append(inbox[c], msg)
                                   ELSE inbox[c]]_vars

\* a bus with a child, a parent and a grandparent has returned from
\* faulted(): the parent's channel holds its one Faulted message, the
\* grandparent's holds nothing
TerminationTellsParentOnlyWitness ==
    \E b \in Buses :
        /\ bus[b].made /\ bus[b].pc = "idle"
        /\ called.op = "faulted" /\ called.bus = b
        /\ bus[b].kids # {}
        /\ bus[b].children = NoChildren
        /\ bus[b].parent # NoBus
        /\ LET p == bus[b].parent
           IN /\ bus[p].parent # NoBus
              /\ bus[b].id # bus[p].id
              /\ inbox[p] = <<Faulted(bus[b].id)>>
              /\ inbox[bus[p].parent] = <<>>

\* C14: bus sends never fail and never alter routing state. send_parent,
\* send_child and send_children return and leave the parent link, the
\* registry and every other field of every bus as they were; send_parent on a
\* bus with no parent, send_child with an id that is not in the registry and
\* a send to a channel whose receiver was dropped deliver nothing, and a
\* child whose channel is closed stays in the registry.
SendsKeepRouting ==
    [][/\ (Called("send_parent") \/ Called("send_child") \/ Called("send_children"))
            => bus' = bus
       /\ Called("send_parent") =>
            LET p == bus[called'.bus].parent
            IN (p = NoBus \/ ~bus[p].open) => inbox' = inbox
       /\ Called("send_child") =>
            LET c == bus[called'.bus].children[called'.id]
            IN (c = NoBus \/ ~bus[c].open) => inbox' = inbox
       /\ Called("send_children") =>
            \A c \in Buses : ~bus[c].open => inbox'[c] = inbox[c]]_vars

\* send_child was called with the id of a registered child whose receiver
\* was dropped: nothing was delivered and the child is still registered
SendsKeepRoutingWitness ==
    /\ called.op = "send_child"
    /\ LET c == bus[called.bus].children[called.id]
       IN /\ c # NoBus
          /\ ~bus[c].open
          /\ inbox[c] = <<>>

\* the handle is dropped by the one compare-exchange of the fast path
DropFastStep == hpc = "idle" /\ hpc' = "gone"

\* C15 as stated: when the state word is exactly SCHEDULED | HANDLE |
\* REFERENCE, dropping the handle clears HANDLE and drops one reference in a
\* single compare-exchange: the refcount is one lower than before.
DropFastDropsReference ==
    [][(DropFastStep /\ state = DropFastOld) =>
          /\ ~Has(state', HANDLE)
          /\ RefCount(state') = RefCount(state) - 1]_vars

\* C15, amended: when the state word is exactly SCHEDULED | HANDLE |
\* REFERENCE, dropping the handle clears HANDLE in a single compare-exchange
\* and changes nothing else: the task stays SCHEDULED and the refcount is the
\* same as before, so the task is not destroyed by the drop.
DropFastKeepsReference ==
    [][DropFastStep =>
          /\ state = SCHEDULED + HANDLE + REFERENCE
          /\ state' = Clear(state, HANDLE)
          /\ Has(state', SCHEDULED)
          /\ RefCount(state') = RefCount(state)
          /\ UNCHANGED <<awaiter, slot, destroyed, queued, wakes>>]_vars

\* the handle of a freshly scheduled task was dropped and the task still
\* has its one reference
DropFastKeepsReferenceWitness ==
    /\ hpc = "gone"
    /\ hret = "drop"
    /\ hentry = SCHEDULED + HANDLE + REFERENCE
    /\ state = SCHEDULED + REFERENCE
    /\ RefCount(state) = 1
    /\ destroyed = 0

\* the compare-exchange of cancel succeeds
CancelCasStep == hpc = "cancel_loop" /\ hpc' # "cancel_loop" /\ state' # state

\* C16: a successful cancel (task neither COMPLETED nor CLOSED) invokes
\* schedule exactly once and raises the refcount by exactly one if and only
\* if the task was neither SCHEDULED nor RUNNING when CLOSED was raised;
\* otherwise it only ORs CLOSED into the state and invokes no schedule. In
\* either case notify is invoked, once, exactly when AWAITER was set in the
\* state the compare-exchange replaced, and it wakes the stored waker.
CancelSchedulesAndNotifies ==
    [][/\ CancelCasStep =>
            /\ ~Has(state, COMPLETED) /\ ~Has(state, CLOSED)
            /\ IF ~Has(state, SCHEDULED) /\ ~Has(state, RUNNING)
               THEN /\ state' = state + SCHEDULED + CLOSED + REFERENCE
                    /\ hpc' = "cancel_schedule"
               ELSE /\ state' = state + CLOSED
                    /\ hpc' = IF Has(state, AWAITER) THEN "cancel_notify" ELSE "idle"
            /\ UNCHANGED <<queued, awaiter, wakes>>
       /\ (hpc = "cancel_schedule" /\ hpc' # hpc) =>
            /\ queued' = queued + 1
            /\ hpc' = IF Has(hstate, AWAITER) THEN "cancel_notify" ELSE "idle"
            /\ UNCHANGED <<state, awaiter, wakes>>
       /\ (hpc = "cancel_notify" /\ hpc' # hpc) =>
            /\ hpc' = "idle"
            /\ awaiter' = NoWaker
            /\ wakes' = wakes \cup ({awaiter} \ {NoWaker})
            /\ queued' = queued
       /\ (hpc = "cancel_loop" /\ HandleStep /\ state' = state) =>
            UNCHANGED <<queued, awaiter, wakes>>]_vars

\* cancel has closed a task that was neither scheduled nor running and had
\* an awaiter: it was scheduled and the awaiter was woken
CancelSchedulesAndNotifiesWitness ==
    /\ hpc = "idle"
    /\ hret = "cancel"
    /\ closedBy = "cancel"
    /\ ~Has(hentry, SCHEDULED) /\ ~Has(hentry, RUNNING)
    /\ Has(hentry, AWAITER)
    /\ Has(state, CLOSED) /\ Has(state, SCHEDULED)
    /\ queued = 1
    /\ hwaker \in wakes

\* the observer's last poll returned Pending and it has not called the
\* handle since
AwaitsPending == hpc = "idle" /\ hret = "Pending"

\* C17: no lost wake-up. If a handle poll returned Pending, having installed
\* its waker and re-loaded the state, then whenever the task is COMPLETED or
\* CLOSED afterwards, the installed waker is eventually woken (unless the
\* observer comes back to the handle on its own before that); and a cancel
\* that closed a task with an installed waker has woken it when it returns.
NoLostWakeup ==
    /\ [](((hpc = "idle" /\ hret = "cancel" /\ Has(hentry, AWAITER))
            /\ Has(state, CLOSED))
           => (hwaker \in wakes /\ awaiter = NoWaker))
    /\ (AwaitsPending /\ (Has(state, COMPLETED) \/ Has(state, CLOSED)))
          ~> (hwaker \in wakes \/ hpc # "idle")

\* the executor completed the task after a poll had returned Pending, and
\* the waker that poll installed was woken
NoLostWakeupWitness ==
    /\ AwaitsPending
    /\ Has(state, COMPLETED)
    /\ ~Has(hentry, COMPLETED)
    /\ awaiter = NoWaker
    /\ hwaker \in wakes

\* C18 as stated: every value the sampler stores into mean_level is the mean
\* computed from a snapshot of the statistics it read in the same iteration;
\* an iteration whose read was not acquired stores no value that was not
\* computed from the statistics.
SampleStoresComputedMean == lbstored # "default"

\* C19 as stated: the mean computation never traps; for every sum of queue
\* depths and every core count, zero included, the division yields a value
\* and the sampler goes on to its next iteration.
SamplerNeverTraps == lbpc # "panicked"

\* the calls of a bus that send to its children
DownwardOps ==
    {"send_child", "send_children", "poison_pill_child",
     "poison_pill_children", "dead", "faulted"}

\* C20: the registry holds at most one sender per child id, the sender of a
\* bus created by new_child of this bus with that id. new_child(id) with an
\* id already registered replaces the earlier entry by the new child's: the
\* earlier child receives nothing from a later send_child, send_children,
\* poison_pill_child, poison_pill_children, dead or faulted of the parent,
\* while its send_parent still appends to the parent's channel.
RegistryKeyedById ==
    /\ [](\A b \in Buses, i \in Ids :
            LET c == bus[b].children[i]
            IN c # NoBus =>
                 /\ bus[c].made /\ bus[c].id = i /\ bus[c].parent = b
                 /\ ~bus[c].replaced
                 /\ \A j \in Ids : bus[b].children[j] = c => j = i)
    /\ [][/\ Called("new_child") =>
               LET b == called'.bus
                   i == called'.id
               IN /\ bus'[b].children[i] # NoBus
                  /\ ~bus[bus'[b].children[i]].made
                  /\ \A j \in Ids \ {i} : bus'[b].children[j] = bus[b].children[j]
                  /\ bus[b].children[i] # NoBus =>
                        bus'[bus[b].children[i]].replaced
          /\ (\E op \in DownwardOps : Called(op)) =>
               \A c \in Buses :
                   (bus[c].replaced /\ bus[c].parent = called'.bus)
                       => inbox'[c] = inbox[c]
          /\ Called("send_parent") =>
               LET p == bus[called'.bus].parent
               IN (p # NoBus /\ bus[p].open) =>
                     inbox'[p] = Append(inbox[p], called'.msg)]_vars

\* a child was replaced in the registry by a new_child of its id; the parent
\* then called dead(): the new child holds the PoisonPill, the earlier one
\* holds nothing and is alive
RegistryKeyedByIdWitness ==
    \E b \in Buses, c \in Buses :
        /\ bus[c].replaced /\ bus[c].parent = b /\ bus[c].open
        /\ called.op = "dead" /\ called.bus = b
        /\ inbox[c] = <<>>
        /\ \E d \in bus[b].kids :
              /\ bus[d].id = bus[c].id
              /\ inbox[d] = <<PoisonPill>>

====
